---- MODULE Spec2Model ----
(***************************************************************************)
(* A model of libansr (src/src/ansr.c, src/src/ansr.h): the byte-stream    *)
(* interpreter that turns text with ANSI escape sequences into a grid of   *)
(* attributed cells.                                                       *)
(*                                                                         *)
(* The translation unit is modelled as written: NDEBUG is not defined, so  *)
(* every assert() is evaluated and a failed assert() ends the process      *)
(* with abort().                                                           *)
(*                                                                         *)
(* A renderer (_ansr_t) is a record; the functions of ansr.c are operators *)
(* from a renderer to a result record [a, rc, out]: the renderer after the *)
(* function, the function's return value and how control left it:          *)
(*   "ok"    the function returned,                                        *)
(*   "abort" an assert() failed (SIGABRT),                                 *)
(*   "ub"    an access outside the allocated storage was executed.         *)
(* Whether realloc() succeeds is an input of the operators.                *)
(***************************************************************************)
EXTENDS Integers, Sequences, FiniteSets, TLC

VARIABLES
    ansr,       \* the _ansr_t instance
    pc,         \* where the process is: "idle" (between calls), "write" (in the loop
                \* of ansr_write), "aborted" (a failed assert), and after an access
                \* outside the allocated storage "segv" (the access faulted) or
                \* "corrupt" (it went through; nothing is modelled after it)
    ret,        \* what the last completed ansr_write() returned
    enomem,     \* a growth step of the ansr_write() in progress (or last completed) failed
    fed,        \* number of input bytes consumed so far
    ev,         \* the last step taken: its operation, the last byte consumed (-1: none)
                \* and what the function called for that byte returned
    input,      \* the whole input of a run that is given one (SpecPrint, SpecSplit)
    twin,       \* a second, independent _ansr_t instance (SpecSplit)
    alloc,      \* the outcome of the reallocs of a run that fixes it (SpecSplit)
    char_signed, \* the build's plain char is signed (implementation-defined)
    heap        \* the blocks of storage that are allocated, in a run that follows
                \* them (SpecFree)

vars == <<ansr, pc, ret, enomem, fed, ev, input, twin, alloc, char_signed, heap>>

----------------------------------------------------------------------------
(* Bounds of the model *)

\* total number of input bytes fed to one renderer
MaxInput == 6

\* length of an input made of printable bytes only (SpecPrint)
MaxPrint == 6

\* length of an input fed whole and in two parts (SpecSplit)
MaxSplit == 4

\* number of parameters of an SGR sequence made of the sampled codes (SpecSeq)
MaxSeq == 2

\* number of digits of a parameter given as a digit string (SpecSeq)
MaxDigits == 10

\* number of input bytes fed to a renderer before it is freed (SpecFree)
MaxFree == 4

\* number of input bytes fed to a renderer whose grid holds cells (SpecGrid)
MaxGrid == 3

----------------------------------------------------------------------------
(* Program constants *)

ANSR_MIN_ALLOC_PARAMS == 2
ANSR_MIN_ALLOC_ROWS == 64
ANSR_MIN_ALLOC_COLS == 80

ENOMEM == 12
EOVERFLOW == 75

ANSR_COLOR_BLACK == 0
ANSR_COLOR_WHITE == 7

MAX(x, y) == IF x > y THEN x ELSE y

(* `unsigned' is 32 bits wide.  An unsigned value v is held as its residue  *)
(* modulo 2^32 in -2^31 .. 2^31 - 1 (v itself below 2^31, v - 2^32 from     *)
(* 2^31 on: UINT_MAX is -1), the range of the model checker's integers.     *)
(* Sums and differences of residues are reduced by ToUnsigned, and          *)
(* unsigned values are compared by ULess.                                   *)
HalfWord == 65536

\* the unsigned value of the two 16 bit halves hi and lo
FromHalves(hi, lo) ==
    IF hi >= HalfWord \div 2 THEN (hi - HalfWord) * HalfWord + lo ELSE hi * HalfWord + lo

\* the value an unsigned object holds after being assigned v
ToUnsigned(v) == FromHalves((v \div HalfWord) % HalfWord, v % HalfWord)

\* x < y for unsigned x and y
ULess(x, y) == IF (x < 0) = (y < 0) THEN x < y ELSE y < 0

UMin(x, y) == IF ULess(x, y) THEN x ELSE y

\* x * 10 + d for an unsigned x and a digit d, in unsigned arithmetic
UTimesTenPlus(x, d) ==
    LET hi == (x \div HalfWord) % HalfWord
        lo == (x % HalfWord) * 10 + d
    IN  FromHalves((hi * 10 + lo \div HalfWord) % HalfWord, lo % HalfWord)

----------------------------------------------------------------------------
(* ansr_disp_state_t *)

AttrNames ==
    { "bold", "faint", "italic", "underline", "slow_blink", "rapid_blink",
      "invert", "conceal", "strikeout", "double_underline", "proportional",
      "framed", "encircled", "overlined", "ideogram_underline",
      "ideogram_double_underline", "ideogram_overline",
      "ideogram_double_overline", "ideogram_stress", "superscript",
      "subscript" }

\* an ansr_disp_state_t of all zero bytes (calloc, memset)
ZeroDispState == [fg |-> ANSR_COLOR_BLACK, bg |-> ANSR_COLOR_BLACK, attrs |-> {}]

\* an ansr_char_t of all zero bytes
ZeroChar == [code |-> 0, disp_state |-> ZeroDispState]

sgr_reset == [fg |-> ANSR_COLOR_WHITE, bg |-> ANSR_COLOR_BLACK, attrs |-> {}]

\* SGR codes whose case sets one attribute bit
SgrSets ==
    [p \in {1, 2, 3, 4, 5, 6, 7, 8, 9, 21, 51, 52, 53, 60, 61, 62, 63, 64, 73, 74} |->
        CASE p = 1 -> "bold"
          [] p = 2 -> "faint"
          [] p = 3 -> "italic"
          [] p = 4 -> "underline"
          [] p = 5 -> "slow_blink"
          [] p = 6 -> "rapid_blink"
          [] p = 7 -> "invert"
          [] p = 8 -> "conceal"
          [] p = 9 -> "strikeout"
          [] p = 21 -> "double_underline"
          [] p = 51 -> "framed"
          [] p = 52 -> "encircled"
          [] p = 53 -> "overlined"
          [] p = 60 -> "ideogram_underline"
          [] p = 61 -> "ideogram_double_underline"
          [] p = 62 -> "ideogram_overline"
          [] p = 63 -> "ideogram_double_overline"
          [] p = 64 -> "ideogram_stress"
          [] p = 73 -> "superscript"
          [] p = 74 -> "subscript"]

\* SGR codes whose case clears attribute bits
SgrClears ==
    [p \in {22, 23, 24, 25, 26, 27, 28, 29, 50, 54, 55, 65, 75} |->
        CASE p = 22 -> {"bold"}
          [] p = 23 -> {"italic"}
          [] p = 24 -> {"underline", "double_underline"}
          [] p = 25 -> {"slow_blink", "rapid_blink"}
          [] p = 26 -> {"proportional"}
          [] p = 27 -> {"invert"}
          [] p = 28 -> {"conceal"}
          [] p = 29 -> {"strikeout"}
          [] p = 50 -> {"proportional"}
          [] p = 54 -> {"framed", "encircled"}
          [] p = 55 -> {"overlined"}
          [] p = 65 -> {"ideogram_underline", "ideogram_double_underline",
                        "ideogram_overline", "ideogram_double_overline",
                        "ideogram_stress"}
          [] p = 75 -> {"superscript", "subscript"}]

\* SGR codes whose case is assert(0)
SgrAsserts ==
    {10, 20, 38, 39, 48, 49, 58, 59} \cup (11..19) \cup (90..97) \cup (100..107)

\* (mutant) the reset of parameter 0 restoring the colors only
sgr_case_soft_reset(d, p) ==
    CASE p = 0 -> [d EXCEPT !.fg = ANSR_COLOR_WHITE, !.bg = ANSR_COLOR_BLACK]
      [] p \in DOMAIN SgrSets -> [d EXCEPT !.attrs = @ \cup {SgrSets[p]}]
      [] p \in DOMAIN SgrClears -> [d EXCEPT !.attrs = @ \ SgrClears[p]]
      [] p \in 30..37 -> [d EXCEPT !.fg = p - 30]
      [] p \in 40..47 -> [d EXCEPT !.bg = p - 40]
      [] OTHER -> d

\* one iteration of the loop of _ansr_sgr: the switch on parameter p
sgr_case(d, p) ==
    CASE p = 0 -> sgr_reset
      [] p \in DOMAIN SgrSets -> [d EXCEPT !.attrs = @ \cup {SgrSets[p]}]
      [] p \in DOMAIN SgrClears -> [d EXCEPT !.attrs = @ \ SgrClears[p]]
      [] p \in 30..37 -> [d EXCEPT !.fg = p - 30]
      [] p \in 40..47 -> [d EXCEPT !.bg = p - 40]
      [] OTHER -> d

RECURSIVE sgr_loop_backwards(_, _, _)
\* (mutant) the parameters applied from the last to the first
sgr_loop_backwards(d, params, i) ==
    IF i > Len(params) THEN [d |-> d, out |-> "ok"]
    ELSE IF params[Len(params) + 1 - i] \in SgrAsserts THEN [d |-> d, out |-> "abort"]
    ELSE sgr_loop_backwards(sgr_case(d, params[Len(params) + 1 - i]), params, i + 1)

RECURSIVE sgr_loop(_, _, _)
\* the for loop of _ansr_sgr from index i (1-based here) on
sgr_loop(d, params, i) ==
    IF i > Len(params) THEN [d |-> d, out |-> "ok"]
    ELSE IF params[i] \in SgrAsserts THEN [d |-> d, out |-> "abort"]
    ELSE sgr_loop(sgr_case(d, params[i]), params, i + 1)

\* _ansr_sgr on the live parameter list
ansr_sgr(a) ==
    IF a.n_params = 0 THEN [a |-> [a EXCEPT !.disp_state = sgr_reset], rc |-> 0, out |-> "ok"]
    ELSE LET res == sgr_loop(a.disp_state, a.params, 1)
         IN [a |-> [a EXCEPT !.disp_state = res.d], rc |-> 0, out |-> res.out]

----------------------------------------------------------------------------
(* Bytes: the case labels of the switches of ansr_write *)

BEL == 7
BS == 8
HT == 9
LF == 10
FF == 12
CR == 13
SUB == 26
ESC == 27
SP == 32
DEL == 127
LBRACKET == 91
COLON == 58
SEMICOLON == 59
CUU == 65
CUD == 66
CUF == 67
CUB == 68
CHA == 71
CUP == 72
ED == 74
SGR == 109

Digits == 48..57
FinalBytes == 64..111
PrivateFinalBytes == 112..126

\* the bytes the default label of the INPUT state switch stores in the grid
IsStored(c) == c \notin {BEL, BS, HT, LF, FF, CR, SUB, ESC, DEL}

----------------------------------------------------------------------------
(* _ansr_t *)

\* the instance calloc() returns in ansr_new, with the configuration copied in
ansr_new(conf) ==
    [ conf |-> conf,
      state |-> "INPUT",
      disp_state |-> ZeroDispState,
      cursor_x |-> 0,
      cursor_y |-> 0,
      n_params_allocated |-> 0,
      n_params |-> 0,
      accumulator |-> 0,
      params |-> << >>,
      height |-> 0,
      allocated_height |-> 0,
      rows |-> << >> ]

(* The grid.  rows maps the indexes of the row array that hold a row (a     *)
(* non-NULL pointer) to that row; every other slot below allocated_height   *)
(* is NULL.  A row's cols lists its cells below its logical width; the      *)
(* cells from width up to allocated_width were zeroed when allocated and    *)
(* have not been stored to.                                                 *)
RowExists(a, y) == y \in DOMAIN a.rows

CellAt(a, y, x) ==
    IF x < a.rows[y].width THEN a.rows[y].cols[x + 1] ELSE ZeroChar

\* the positions of the grid inside the storage allocated for it
InStorage(a, y, x) ==
    /\ ULess(y, a.allocated_height)
    /\ RowExists(a, y)
    /\ ULess(x, a.rows[y].allocated_width)

\* the conversion of an unsigned value up to 0xff to the plain char of the build
ToChar(v) == IF char_signed /\ v >= 128 THEN v - 256 ELSE v

\* the value read from params[i] (0-based), promoted to int
param_at(a, i) == a.params[i + 1]

\* _ansr_params_append(_ansr, p), p converted to the char parameter; ok: realloc succeeds
ansr_params_append(a, p, ok) ==
    LET grow == a.n_params + 1 > a.n_params_allocated
        newsize == MAX(ANSR_MIN_ALLOC_PARAMS, a.n_params_allocated * 2)
    IN  IF grow /\ ~ok THEN [a |-> a, rc |-> -ENOMEM, out |-> "ok"]
        ELSE [a |-> [a EXCEPT !.n_params_allocated = IF grow THEN newsize ELSE @,
                              !.params = Append(@, ToChar(p)),
                              !.n_params = @ + 1],
              rc |-> 0, out |-> "ok"]

\* _ansr_params_append_accumulator
ansr_params_append_accumulator(a, ok) ==
    IF ULess(255, a.accumulator) THEN [a |-> a, rc |-> -EOVERFLOW, out |-> "ok"]
    ELSE LET r == ansr_params_append(a, a.accumulator, ok)
         IN  IF r.rc < 0 THEN r
             ELSE [a |-> [r.a EXCEPT !.accumulator = 0], rc |-> 0, out |-> "ok"]

\* (mutant) the store that also gives the row's earlier cells the Display State
\* of the cell stored
row_store_restamps(row, x, c) ==
    LET w == MAX(row.width, x + 1)
    IN  [row EXCEPT !.width = w,
                    !.cols = [i \in 1..w |->
                                 IF i = x + 1 THEN c
                                 ELSE IF i <= row.width
                                      THEN [row.cols[i] EXCEPT !.disp_state = c.disp_state]
                                 ELSE ZeroChar]]

\* the row after cell c is stored at column x and the logical width updated
row_store(row, x, c) ==
    LET w == MAX(row.width, x + 1)
    IN  [row EXCEPT !.width = w,
                    !.cols = [i \in 1..w |->
                                 IF i = x + 1 THEN c
                                 ELSE IF i <= row.width THEN row.cols[i]
                                 ELSE ZeroChar]]

\* (mutant) the soft wrap done as soon as the last column is reached
add_char_wrap_early(a) ==
    IF a.conf.screen_width # 0 /\ a.cursor_x + 1 = a.conf.screen_width
    THEN [a EXCEPT !.cursor_x = 0, !.cursor_y = ToUnsigned(@ + 1)]
    ELSE a

\* the soft wrap at the head of _ansr_add_char
add_char_wrap(a) ==
    IF a.conf.screen_width # 0 /\ a.cursor_x = a.conf.screen_width
    THEN [a EXCEPT !.cursor_x = 0, !.cursor_y = ToUnsigned(@ + 1)]
    ELSE a

\* the new capacity of the row array
new_height(a) == MAX(ANSR_MIN_ALLOC_ROWS, a.allocated_height * 2)

\* the new capacity of a row of capacity old_width
new_width(old_width) == MAX(old_width * 2, ANSR_MIN_ALLOC_COLS)

\* (mutant) every row below the logical height is allocated with the row array
add_char_rows_eager(a, ok) ==
    LET grow == ~ULess(a.cursor_y, a.allocated_height)
    IN  IF grow /\ ~ok THEN [a |-> a, rc |-> -ENOMEM, out |-> "ok"]
        ELSE LET a1 == IF grow THEN [a EXCEPT !.allocated_height = new_height(a)] ELSE a
                 a2 == IF ~ULess(a1.cursor_y, a1.height)
                       THEN [a1 EXCEPT !.height = ToUnsigned(a1.cursor_y + 1)]
                       ELSE a1
                 fits == ULess(a2.cursor_y, a2.allocated_height)
                 a3 == IF fits
                       THEN [a2 EXCEPT !.rows = [r \in DOMAIN a2.rows \cup (0..(a2.height - 1)) |->
                                IF r \in DOMAIN a2.rows THEN a2.rows[r]
                                ELSE [width |-> 0, allocated_width |-> ANSR_MIN_ALLOC_COLS,
                                      cols |-> << >>]]]
                       ELSE a2
             IN  [a |-> a3, rc |-> 0, out |-> IF fits THEN "ok" ELSE "ub"]

\* "expand rows" and the update of the logical height; ok: realloc succeeds
add_char_rows(a, ok) ==
    LET grow == ~ULess(a.cursor_y, a.allocated_height)
    IN  IF grow /\ ~ok THEN [a |-> a, rc |-> -ENOMEM, out |-> "ok"]
        ELSE LET a1 == IF grow THEN [a EXCEPT !.allocated_height = new_height(a)] ELSE a
                 a2 == IF ~ULess(a1.cursor_y, a1.height)
                       THEN [a1 EXCEPT !.height = ToUnsigned(a1.cursor_y + 1)]
                       ELSE a1
             IN  [a |-> a2, rc |-> 0,
                  out |-> IF ~ULess(a2.cursor_y, a2.allocated_height) THEN "ub" ELSE "ok"]

\* "expand cols"; ok: realloc succeeds
add_char_cols(a, ok) ==
    LET y == a.cursor_y
        old_width == IF RowExists(a, y) THEN a.rows[y].allocated_width ELSE 0
        grow == ~RowExists(a, y) \/ ~ULess(a.cursor_x, old_width)
        new == IF RowExists(a, y)
               THEN [a.rows[y] EXCEPT !.allocated_width = new_width(old_width)]
               ELSE [width |-> 0, allocated_width |-> new_width(old_width), cols |-> << >>]
    IN  IF grow /\ ~ok THEN [a |-> a, rc |-> -ENOMEM, out |-> "ok"]
        ELSE LET a1 == IF grow
                       THEN [a EXCEPT !.rows = [r \in DOMAIN a.rows \cup {y} |->
                                                   IF r = y THEN new ELSE a.rows[r]]]
                       ELSE a
             IN  [a |-> a1, rc |-> 0,
                  out |-> IF ~ULess(a1.cursor_x, a1.rows[y].allocated_width) THEN "ub" ELSE "ok"]

\* the store of the cell, the cursor advance and the update of the logical width
add_char_store(a, c) ==
    LET y == a.cursor_y
        x == a.cursor_x
        cell == [code |-> c, disp_state |-> a.disp_state]
    IN  [a EXCEPT !.rows[y] = row_store(@, x, cell),
                  !.cursor_x = ToUnsigned(x + 1)]

\* _ansr_add_char; rows_ok, cols_ok: the realloc of the row array, of the row, succeeds
ansr_add_char(a, c, rows_ok, cols_ok) ==
    LET r1 == add_char_rows(add_char_wrap(a), rows_ok)
    IN  IF r1.rc < 0 \/ r1.out # "ok" THEN r1
        ELSE LET r2 == add_char_cols(r1.a, cols_ok)
             IN  IF r2.rc < 0 \/ r2.out # "ok" THEN r2
                 ELSE [a |-> add_char_store(r2.a, c), rc |-> 0, out |-> "ok"]

----------------------------------------------------------------------------
(* ansr_write: one iteration of its for loop *)

Returned(a) == [a |-> a, rc |-> 0, out |-> "ok"]
Aborted(a) == [a |-> a, rc |-> 0, out |-> "abort"]

\* final bytes whose case is assert(0): 'D' 'E' 'F' 'I' 'K' 'S' 'T' 'f'
AssertFinals == {68, 69, 70, 73, 75, 83, 84, 102}

\* (mutant) CR treated as a new line: column 0 of the next row
write_input_cr_newline(a, c, ok) ==
    CASE c = BEL -> Returned(a)
      [] c = BS -> Returned(IF a.cursor_x # 0 THEN [a EXCEPT !.cursor_x = @ - 1] ELSE a)
      [] c = HT -> Aborted(a)
      [] c = LF -> Returned([a EXCEPT !.cursor_y = ToUnsigned(@ + 1)])
      [] c = FF -> Aborted(a)
      [] c = CR -> Returned([a EXCEPT !.cursor_x = 0, !.cursor_y = ToUnsigned(@ + 1)])
      [] c = SUB -> Returned([a EXCEPT !.state = "EOF"])
      [] c = ESC -> Returned([a EXCEPT !.state = "ESCAPE"])
      [] c = DEL -> Returned(a)
      [] OTHER -> ansr_add_char(a, c, ok.rows, ok.cols)

\* case ANSR_STATE_INPUT; rc is what _ansr_add_char returned (the call discards it)
write_input(a, c, ok) ==
    CASE c = BEL -> Returned(a)
      [] c = BS -> Returned(IF a.cursor_x # 0 THEN [a EXCEPT !.cursor_x = @ - 1] ELSE a)
      [] c = HT -> Aborted(a)
      [] c = LF -> Returned([a EXCEPT !.cursor_y = ToUnsigned(@ + 1)])
      [] c = FF -> Aborted(a)
      [] c = CR -> Returned([a EXCEPT !.cursor_x = 0])
      [] c = SUB -> Returned([a EXCEPT !.state = "EOF"])
      [] c = ESC -> Returned([a EXCEPT !.state = "ESCAPE"])
      [] c = DEL -> Returned(a)
      [] OTHER -> ansr_add_char(a, c, ok.rows, ok.cols)

\* case ANSR_STATE_ESCAPE
write_escape(a, c) ==
    IF c = LBRACKET
    THEN Returned([a EXCEPT !.state = "CSI", !.accumulator = 0, !.n_params = 0,
                            !.params = << >>])
    ELSE Aborted(a)

\* case ANSR_STATE_CSI, the first switch: parameter bytes, and the
\* assert(!_ansr_params_append_accumulator()) of ';' and of the final bytes
csi_param_switch(a, c, ok) ==
    CASE c \in Digits ->
            Returned([a EXCEPT !.accumulator = UTimesTenPlus(@, c - 48)])
      [] c = SEMICOLON \/ c \in FinalBytes \/ c \in PrivateFinalBytes ->
            LET r == ansr_params_append_accumulator(a, ok.params)
            IN  [a |-> r.a, rc |-> r.rc, out |-> IF r.rc # 0 THEN "abort" ELSE "ok"]
      [] OTHER -> Aborted(a)

\* case ANSR_STATE_CSI, the second switch: the dispatch on the final byte
csi_final_switch(a, c) ==
    CASE c = CUU ->
            LET n == IF a.n_params # 0 THEN ToUnsigned(param_at(a, 0)) ELSE 1
            IN  Returned([a EXCEPT !.cursor_y = ToUnsigned(@ - UMin(@, n)), !.state = "INPUT"])
      [] c = CUD ->
            Returned([a EXCEPT
                !.cursor_y = ToUnsigned(@ + (IF a.n_params # 0 THEN param_at(a, 0) ELSE 1)),
                !.state = "INPUT"])
      [] c = CUF ->
            Returned([a EXCEPT
                !.cursor_x = ToUnsigned(@ + (IF a.n_params # 0 THEN param_at(a, 0) ELSE 1)),
                !.state = "INPUT"])
      [] c \in AssertFinals -> Aborted(a)
      [] c = CHA ->
            Returned([a EXCEPT
                !.cursor_x = IF a.n_params # 0 THEN ToUnsigned(param_at(a, 0) - 1) ELSE 0,
                !.state = "INPUT"])
      [] c = CUP ->
            LET r == IF a.n_params >= 1 THEN ToUnsigned(param_at(a, 0) - 1) ELSE 0
                cc == IF a.n_params = 2 THEN ToUnsigned(param_at(a, 1) - 1) ELSE 0
            IN  Returned([a EXCEPT !.cursor_y = r, !.cursor_x = cc, !.state = "INPUT"])
      [] c = ED -> Returned([a EXCEPT !.state = "INPUT"])
      [] c = SGR ->
            LET r == ansr_sgr(a)
            IN  IF r.out # "ok" THEN r ELSE Returned([r.a EXCEPT !.state = "INPUT"])
      [] c \in PrivateFinalBytes -> Returned([a EXCEPT !.state = "INPUT"])
      [] OTHER -> Returned(a)

\* case ANSR_STATE_CSI
write_csi(a, c, ok) ==
    LET r == csi_param_switch(a, c, ok)
    IN  IF r.out # "ok" THEN r ELSE csi_final_switch(r.a, c)

\* (mutant) the EOF state left again on ESC
ansr_write_byte_eof_left(a, c, ok) ==
    CASE a.state = "INPUT" -> write_input(a, c, ok)
      [] a.state = "EOF" -> IF c = ESC THEN write_input(a, c, ok) ELSE Returned(a)
      [] a.state = "ESCAPE" -> write_escape(a, c)
      [] a.state = "CSI" -> write_csi(a, c, ok)

\* the body of the for loop of ansr_write for input byte c;
\* ok.rows, ok.cols, ok.params: whether a realloc of that storage succeeds
ansr_write_byte(a, c, ok) ==
    CASE a.state = "INPUT" -> write_input(a, c, ok)
      [] a.state = "EOF" -> Returned(a)
      [] a.state = "ESCAPE" -> write_escape(a, c)
      [] a.state = "CSI" -> write_csi(a, c, ok)

----------------------------------------------------------------------------
(* Inputs *)

\* configured screen widths: a narrow screen, the default
ScreenWidths == {2, 80}

\* the outcomes of the reallocs a byte consumed in parser state `state' can reach
AllocOutcomes(state) ==
    CASE state = "INPUT" -> [rows : BOOLEAN, cols : BOOLEAN, params : {TRUE}]
      [] state = "CSI" -> [rows : {TRUE}, cols : {TRUE}, params : BOOLEAN]
      [] OTHER -> [rows : {TRUE}, cols : {TRUE}, params : {TRUE}]
AllocOk == [rows |-> TRUE, cols |-> TRUE, params |-> TRUE]

(* The bytes fed in each parser state: one byte for every case label of    *)
(* that state's switch, and bytes that fall to its default label.          *)
InputBytes == {BEL, BS, HT, LF, FF, CR, SUB, ESC, DEL, SP, CUU}
EscapeBytes == {LBRACKET, CUU}
CsiBytes == {49, 57, COLON, SEMICOLON, 63, SP, 64, CUU, CUD, CUF, CUB, CHA, CUP, ED,
             SGR, 112, ESC}
EofBytes == {SP, ESC, LF}

Alphabet(state) ==
    CASE state = "INPUT" -> InputBytes
      [] state = "ESCAPE" -> EscapeBytes
      [] state = "CSI" -> CsiBytes
      [] state = "EOF" -> EofBytes

----------------------------------------------------------------------------
(* ansr_write as a whole *)

\* (mutant) the parser state kept per call: every call starts in the INPUT state
ansr_write_entry_resets(a) == [a EXCEPT !.state = "INPUT"]

\* the head of ansr_write: the cast of the handle and the two asserts
ansr_write_entry(a) == a

RECURSIVE write_loop(_, _, _, _)
\* the for loop of ansr_write from input[i] (1-based here) on; it discards rc
write_loop(a, bytes, i, ok) ==
    IF i > Len(bytes) THEN [a |-> a, rc |-> 0, out |-> "ok"]
    ELSE LET r == ansr_write_byte(a, bytes[i], ok)
         IN  IF r.out # "ok" THEN [a |-> r.a, rc |-> 0, out |-> r.out]
             ELSE write_loop(r.a, bytes, i + 1, ok)

\* ansr_write(ansr, input, input_len); ok: the outcome of every realloc of the call
ansr_write(a, bytes, ok) == write_loop(ansr_write_entry(a), bytes, 1, ok)

----------------------------------------------------------------------------
(* The process: ansr_new, then calls of ansr_write *)

Event(op, c, rc) == [op |-> op, c |-> c, rc |-> rc]

Conf(w) == [screen_width |-> w, screen_lines |-> 24]

Init ==
    /\ \E w \in ScreenWidths : ansr = ansr_new(Conf(w))
    /\ pc = "idle"
    /\ ret = 0
    /\ enomem = FALSE
    /\ fed = 0
    /\ ev = Event("new", -1, 0)
    /\ input = << >>
    /\ twin = ansr
    /\ alloc = AllocOk
    /\ char_signed \in BOOLEAN
    /\ heap = {}

\* the caller enters ansr_write
ansr_write_call ==
    /\ pc = "idle"
    /\ pc' = "write"
    /\ ansr' = ansr_write_entry(ansr)
    /\ enomem' = FALSE
    /\ ev' = Event("call", ev.c, 0)
    /\ UNCHANGED <<ret, fed, input, twin, alloc, char_signed, heap>>

\* one iteration of the for loop of ansr_write
ansr_write_loop ==
    /\ pc = "write"
    /\ fed < MaxInput
    /\ \E c \in Alphabet(ansr.state), ok \in AllocOutcomes(ansr.state) :
          LET r == ansr_write_byte(ansr, c, ok)
          IN  /\ ansr' = r.a
              /\ pc' \in CASE r.out = "ok" -> {"write"}
                           [] r.out = "abort" -> {"aborted"}
                           [] r.out = "ub" -> {"segv", "corrupt"}
              /\ enomem' = (enomem \/ r.rc = -ENOMEM)
              /\ ev' = Event("byte", c, r.rc)
    /\ fed' = fed + 1
    /\ UNCHANGED <<ret, input, twin, alloc, char_signed, heap>>

\* the for loop ends: return 0
ansr_write_return ==
    /\ pc = "write"
    /\ pc' = "idle"
    /\ ret' = 0
    /\ ev' = Event("return", ev.c, 0)
    /\ UNCHANGED <<ansr, enomem, fed, input, twin, alloc, char_signed, heap>>

Next ==
    \/ ansr_write_call
    \/ ansr_write_loop
    \/ ansr_write_return

Spec == Init /\ [][Next]_vars

----------------------------------------------------------------------------
(* SpecPrint: a new renderer with a nonzero screen width is fed printable  *)
(* bytes only, in any number of calls, and no realloc fails.  input        *)
(* records the bytes fed.                                                  *)

PrintWidths == {1, 2, 3, 80}
PrintBytes == {SP, CUU}

InitPrint ==
    /\ \E w \in PrintWidths : ansr = ansr_new(Conf(w))
    /\ pc = "idle"
    /\ ret = 0
    /\ enomem = FALSE
    /\ fed = 0
    /\ ev = Event("new", -1, 0)
    /\ input = << >>
    /\ twin = ansr
    /\ alloc = AllocOk
    /\ char_signed \in BOOLEAN
    /\ heap = {}

\* one iteration of the for loop of ansr_write on a printable byte
print_loop ==
    /\ pc = "write"
    /\ fed < MaxPrint
    /\ \E c \in PrintBytes :
          LET r == ansr_write_byte(ansr, c, AllocOk)
          IN  /\ ansr' = r.a
              /\ pc' = IF r.out = "ok" THEN "write" ELSE r.out
              /\ ev' = Event("byte", c, r.rc)
              /\ input' = Append(input, c)
    /\ fed' = fed + 1
    /\ UNCHANGED <<ret, enomem, twin, alloc, char_signed, heap>>

NextPrint ==
    \/ ansr_write_call
    \/ print_loop
    \/ ansr_write_return

SpecPrint == InitPrint /\ [][NextPrint]_vars

----------------------------------------------------------------------------
(* SpecSplit: the same input is fed to two new renderers, to ansr in two   *)
(* calls of ansr_write, input[1..fed] and the rest, and to twin in one     *)
(* call.  alloc says which reallocs succeed, the same in every call.       *)

SplitBytes == {ESC, LBRACKET, 49, SEMICOLON, CUD, SP}
SplitWidths == {2}
SplitAllocs == {AllocOk,
                [rows |-> TRUE, cols |-> FALSE, params |-> TRUE],
                [rows |-> FALSE, cols |-> TRUE, params |-> TRUE]}

SplitInputs == UNION {[1..n -> SplitBytes] : n \in 0..MaxSplit}

InitSplit ==
    /\ \E w \in SplitWidths : ansr = ansr_new(Conf(w))
    /\ twin = ansr
    /\ input \in SplitInputs
    /\ fed \in 0..Len(input)
    /\ alloc \in SplitAllocs
    /\ char_signed \in BOOLEAN
    /\ heap = {}
    /\ pc = "idle"
    /\ ret = 0
    /\ enomem = FALSE
    /\ ev = Event("new", -1, 0)

\* where control is after a call of ansr_write that ended as r, bound for `next'
AfterCall(r, next) == IF r.out = "ok" THEN next ELSE IF r.out = "abort" THEN "aborted" ELSE r.out

\* ansr_write(ansr, input, fed)
split_first ==
    /\ pc = "idle"
    /\ LET r == ansr_write(ansr, SubSeq(input, 1, fed), alloc)
       IN  /\ ansr' = r.a
           /\ ret' = r.rc
           /\ pc' = AfterCall(r, "first")
    /\ ev' = Event("return", -1, 0)
    /\ UNCHANGED <<enomem, fed, input, twin, alloc, char_signed, heap>>

\* ansr_write(ansr, input + fed, input_len - fed)
split_second ==
    /\ pc = "first"
    /\ LET r == ansr_write(ansr, SubSeq(input, fed + 1, Len(input)), alloc)
       IN  /\ ansr' = r.a
           /\ ret' = r.rc
           /\ pc' = AfterCall(r, "second")
    /\ ev' = Event("return", -1, 0)
    /\ UNCHANGED <<enomem, fed, input, twin, alloc, char_signed, heap>>

\* ansr_write(twin, input, input_len)
split_whole ==
    /\ pc = "second"
    /\ LET r == ansr_write(twin, input, alloc)
       IN  /\ twin' = r.a
           /\ ret' = r.rc
           /\ pc' = AfterCall(r, "done")
    /\ ev' = Event("return", -1, 0)
    /\ UNCHANGED <<ansr, enomem, fed, input, alloc, char_signed, heap>>

NextSplit ==
    \/ split_first
    \/ split_second
    \/ split_whole

SpecSplit == InitSplit /\ [][NextSplit]_vars

----------------------------------------------------------------------------
(* SpecSeq: a new renderer is fed a prior input in a first call of         *)
(* ansr_write and then, in a second call, one CSI sequence, byte by byte.  *)
(* input is the sequence, twin the renderer as the first call left it and  *)
(* alloc the outcome of the reallocs of the second call.                   *)

\* the configuration ansr_new uses when it is given none
ansr_conf_defaults == Conf(80)

RECURSIVE Decimal(_)
\* the decimal digits of n, as bytes
Decimal(n) == IF n < 10 THEN <<48 + n>> ELSE Append(Decimal(n \div 10), 48 + (n % 10))

\* the bytes of the digit values ds
DigitBytes(ds) == [i \in 1..Len(ds) |-> 48 + ds[i]]

\* the decimal fields of the numbers ns
Decimals(ns) == [i \in 1..Len(ns) |-> Decimal(ns[i])]

RECURSIVE ParamBytes(_)
\* the parameter bytes of a CSI sequence: its fields, separated by ';'
ParamBytes(fields) ==
    IF fields = << >> THEN << >>
    ELSE IF Len(fields) = 1 THEN fields[1]
    ELSE fields[1] \o <<SEMICOLON>> \o ParamBytes(Tail(fields))

\* the CSI sequence of the given parameter fields and final byte
Csi(fields, final) == <<ESC, LBRACKET>> \o ParamBytes(fields) \o <<final>>

\* the SGR codes whose case changes the Display State
SgrCodes == {0} \cup DOMAIN SgrSets \cup DOMAIN SgrClears \cup (30..37) \cup (40..47)

\* the codes the longer SGR sequences are made of
SgrSample == {0, 1, 4, 21, 22, 24, 31, 32, 42, 60, 65}

SgrLists ==
    {<< >>} \cup {<<p>> : p \in SgrCodes} \cup UNION {[1..n -> SgrSample] : n \in 2..MaxSeq}

SgrInputs == {Csi(Decimals(l), SGR) : l \in SgrLists}

\* cursor movements by an explicit parameter
MoveValues == {0, 1, 2, 100, 127, 128, 200, 255}
MoveInputs == {Csi(<<Decimal(n)>>, f) : n \in MoveValues, f \in {CUU, CUD, CUF}}

\* cursor positions given by two explicit parameters
PosValues == {1, 5, 10, 127, 128, 255}
PosInputs == {Csi(<<Decimal(r), Decimal(c)>>, CUP) : r \in PosValues, c \in PosValues}

\* parameters given as digit strings: around 0xff, around UINT_MAX and beyond
DigitSamples ==
    { <<0>>, <<2, 5, 5>>, <<2, 5, 6>>, <<9, 9, 9>>, <<0, 2, 5, 6>>,
      <<4, 2, 9, 4, 9, 6, 7, 2, 9, 5>>, <<4, 2, 9, 4, 9, 6, 7, 2, 9, 6>>,
      <<4, 2, 9, 4, 9, 6, 7, 3, 0, 3>>, <<4, 2, 9, 4, 9, 6, 7, 5, 5, 1>>,
      <<4, 2, 9, 4, 9, 6, 7, 5, 5, 2>>, <<8, 5, 8, 9, 9, 3, 4, 5, 9, 2>>,
      <<4, 2, 9, 4, 9, 6, 7, 2, 9, 6, 0>>, <<0, 0, 0, 0, 0, 0, 0, 0, 2, 5, 5>>,
      <<0, 4, 2, 9, 4, 9, 6, 7, 2, 9, 6>> }

\* a digit string finalized by a final byte, and by ';'
DigitInputs ==
    LET strings == {DigitBytes(ds) : ds \in {s \in DigitSamples : Len(s) <= MaxDigits}}
    IN  {Csi(<<d>>, f) : d \in strings, f \in {SGR, ED}}
        \cup {Csi(<<d, << >> >>, ED) : d \in strings}

SeqInputs == SgrInputs \cup MoveInputs \cup PosInputs \cup DigitInputs

\* the inputs of the first call: nothing; attributes, colors and a position
\* near the origin; a position far from the origin
SeqPriors ==
    { << >>,
      Csi(Decimals(<<1, 4, 21, 31, 42, 51, 60, 73>>), SGR) \o Csi(Decimals(<<3, 7>>), CUP),
      Csi(Decimals(<<127>>), CUD) \o Csi(Decimals(<<127>>), CUD)
          \o Csi(Decimals(<<9>>), CUF) \o Csi(Decimals(<<7, 36, 45>>), SGR) }

SeqAllocs == {AllocOk, [rows |-> TRUE, cols |-> TRUE, params |-> FALSE]}

InitSeq ==
    /\ ansr = ansr_new(ansr_conf_defaults)
    /\ twin = ansr
    /\ input \in SeqInputs
    /\ alloc \in SeqAllocs
    /\ char_signed \in BOOLEAN
    /\ heap = {}
    /\ pc = "new"
    /\ ret = 0
    /\ enomem = FALSE
    /\ fed = 0
    /\ ev = Event("new", -1, 0)

\* the first call: ansr_write(ansr, prior, Len(prior)), every realloc succeeding
seq_prior ==
    /\ pc = "new"
    /\ \E prior \in SeqPriors :
          LET r == ansr_write(ansr, prior, AllocOk)
          IN  /\ ansr' = r.a
              /\ twin' = r.a
              /\ ret' = r.rc
              /\ pc' = AfterCall(r, "idle")
    /\ ev' = Event("return", -1, 0)
    /\ UNCHANGED <<enomem, fed, input, alloc, char_signed, heap>>

\* the caller enters ansr_write(ansr, input, Len(input))
seq_call ==
    /\ pc = "idle"
    /\ fed = 0
    /\ pc' = "write"
    /\ ansr' = ansr_write_entry(ansr)
    /\ enomem' = FALSE
    /\ ev' = Event("call", ev.c, 0)
    /\ UNCHANGED <<ret, fed, input, twin, alloc, char_signed, heap>>

\* one iteration of the for loop of ansr_write, on the next byte of input
seq_loop ==
    /\ pc = "write"
    /\ fed < Len(input)
    /\ LET c == input[fed + 1]
           r == ansr_write_byte(ansr, c, alloc)
       IN  /\ ansr' = r.a
           /\ pc' \in CASE r.out = "ok" -> {"write"}
                        [] r.out = "abort" -> {"aborted"}
                        [] r.out = "ub" -> {"segv", "corrupt"}
           /\ enomem' = (enomem \/ r.rc = -ENOMEM)
           /\ ev' = Event("byte", c, r.rc)
    /\ fed' = fed + 1
    /\ UNCHANGED <<ret, input, twin, alloc, char_signed, heap>>

\* the for loop ends with the input: return 0
seq_return ==
    /\ pc = "write"
    /\ fed = Len(input)
    /\ pc' = "idle"
    /\ ret' = 0
    /\ ev' = Event("return", ev.c, 0)
    /\ UNCHANGED <<ansr, enomem, fed, input, twin, alloc, char_signed, heap>>

NextSeq ==
    \/ seq_prior
    \/ seq_call
    \/ seq_loop
    \/ seq_return

SpecSeq == InitSeq /\ [][NextSeq]_vars

----------------------------------------------------------------------------
(* SpecFree: ansr_new, calls of ansr_write, then ansr_free.  heap is the   *)
(* set of blocks obtained from calloc and realloc and not freed: the       *)
(* _ansr_t, its params, the row array and the rows, named by their owner.  *)
(* pc = "null" says that calloc failed in ansr_new: the handle is NULL and *)
(* ansr is no instance.                                                    *)

\* the blocks the pointers of the instance refer to
Blocks(a) ==
    {<<"ansr", 0>>}
    \cup (IF a.n_params_allocated # 0 THEN {<<"params", 0>>} ELSE {})
    \cup (IF a.allocated_height # 0 THEN {<<"rows", 0>>} ELSE {})
    \cup {<<"row", y>> : y \in DOMAIN a.rows}

\* ansr_free(ansr): the blocks allocated after it; null: the handle is NULL
ansr_free(null, live) == IF null THEN live ELSE live \ {<<"params", 0>>, <<"ansr", 0>>}

FreeInputBytes == {SP, LF, ESC}
FreeCsiBytes == {49, SEMICOLON, CUD, SGR}

FreeAlphabet(state) ==
    CASE state = "INPUT" -> FreeInputBytes
      [] state = "ESCAPE" -> {LBRACKET}
      [] state = "CSI" -> FreeCsiBytes
      [] state = "EOF" -> {SP}

InitFree ==
    /\ ansr = ansr_new(ansr_conf_defaults)
    /\ \E calloc_ok \in BOOLEAN :
          /\ pc = IF calloc_ok THEN "idle" ELSE "null"
          /\ heap = IF calloc_ok THEN Blocks(ansr) ELSE {}
    /\ ret = 0
    /\ enomem = FALSE
    /\ fed = 0
    /\ ev = Event("new", -1, 0)
    /\ input = << >>
    /\ twin = ansr
    /\ alloc = AllocOk
    /\ char_signed \in BOOLEAN

\* one iteration of the for loop of ansr_write; a realloc that succeeds
\* gives the owner of the block a block again
free_loop ==
    /\ pc = "write"
    /\ fed < MaxFree
    /\ \E c \in FreeAlphabet(ansr.state), ok \in AllocOutcomes(ansr.state) :
          LET r == ansr_write_byte(ansr, c, ok)
          IN  /\ ansr' = r.a
              /\ pc' \in CASE r.out = "ok" -> {"write"}
                           [] r.out = "abort" -> {"aborted"}
                           [] r.out = "ub" -> {"segv", "corrupt"}
              /\ enomem' = (enomem \/ r.rc = -ENOMEM)
              /\ ev' = Event("byte", c, r.rc)
              /\ heap' = heap \cup Blocks(r.a)
    /\ fed' = fed + 1
    /\ UNCHANGED <<ret, input, twin, alloc, char_signed>>

\* the caller calls ansr_free with the handle ansr_new returned
ansr_free_call ==
    /\ pc \in {"idle", "null"}
    /\ pc' = "freed"
    /\ heap' = ansr_free(pc = "null", heap)
    /\ ev' = Event("free", ev.c, 0)
    /\ UNCHANGED <<ansr, ret, enomem, fed, input, twin, alloc, char_signed>>

NextFree ==
    \/ ansr_write_call
    \/ free_loop
    \/ ansr_write_return
    \/ ansr_free_call

SpecFree == InitFree /\ [][NextFree]_vars

----------------------------------------------------------------------------
(* SpecGrid: a new renderer is fed a prior input in a first call of        *)
(* ansr_write, which stores cells and moves the cursor, and then any bytes *)
(* in any number of calls.  twin is the renderer as the first call left    *)
(* it; fed counts the bytes fed after the first call.                      *)

\* the inputs of the first call: nothing; two cells in a row and then another
\* Display State; a cell and the cursor below the end of the row array; a cell
\* and the cursor beyond the end of its row; cells in two rows
GridPriors ==
    { << >>,
      <<65, 66>> \o Csi(Decimals(<<1>>), SGR),
      <<65>> \o Csi(Decimals(<<99>>), CUD),
      <<65>> \o Csi(Decimals(<<99>>), CUF),
      <<65, LF, 66>> }

InitGrid ==
    /\ \E w \in ScreenWidths : ansr = ansr_new(Conf(w))
    /\ twin = ansr
    /\ pc = "new"
    /\ ret = 0
    /\ enomem = FALSE
    /\ fed = 0
    /\ ev = Event("new", -1, 0)
    /\ input = << >>
    /\ alloc = AllocOk
    /\ char_signed \in BOOLEAN
    /\ heap = {}

\* the first call: ansr_write(ansr, prior, Len(prior)), every realloc succeeding
grid_prior ==
    /\ pc = "new"
    /\ \E prior \in GridPriors :
          LET r == ansr_write(ansr, prior, AllocOk)
          IN  /\ ansr' = r.a
              /\ twin' = r.a
              /\ ret' = r.rc
              /\ pc' = AfterCall(r, "idle")
    /\ ev' = Event("return", -1, 0)
    /\ UNCHANGED <<enomem, fed, input, alloc, char_signed, heap>>

\* one iteration of the for loop of ansr_write
grid_loop ==
    /\ pc = "write"
    /\ fed < MaxGrid
    /\ \E c \in Alphabet(ansr.state), ok \in AllocOutcomes(ansr.state) :
          LET r == ansr_write_byte(ansr, c, ok)
          IN  /\ ansr' = r.a
              /\ pc' \in CASE r.out = "ok" -> {"write"}
                           [] r.out = "abort" -> {"aborted"}
                           [] r.out = "ub" -> {"segv", "corrupt"}
              /\ enomem' = (enomem \/ r.rc = -ENOMEM)
              /\ ev' = Event("byte", c, r.rc)
    /\ fed' = fed + 1
    /\ UNCHANGED <<ret, input, twin, alloc, char_signed, heap>>

NextGrid ==
    \/ grid_prior
    \/ ansr_write_call
    \/ grid_loop
    \/ ansr_write_return

SpecGrid == InitGrid /\ [][NextGrid]_vars

----------------------------------------------------------------------------
(* Vocabulary of the claims *)

\* this step consumed one input byte
ByteStep == pc = "write" /\ ev'.op = "byte"

\* this step consumed, in the INPUT state, a byte that _ansr_add_char stored
\* (no realloc failed)
WriteStep ==
    /\ ByteStep
    /\ ansr.state = "INPUT"
    /\ IsStored(ev'.c)
    /\ ev'.rc = 0

\* the cursor row and column a character is written at: the cursor after the soft wrap
WriteRow == add_char_wrap(ansr).cursor_y
WriteCol == add_char_wrap(ansr).cursor_x

\* the written position lies outside the storage allocated before the write
BeyondCapacity ==
    \/ ~ULess(WriteRow, ansr.allocated_height)
    \/ ~RowExists(ansr, WriteRow)
    \/ ~ULess(WriteCol, ansr.rows[WriteRow].allocated_width)

\* every cell written before this step, other than (y0, x0), keeps its value
CellsKept(y0, x0) ==
    \A y \in DOMAIN ansr.rows :
        /\ RowExists(ansr', y)
        /\ \A x \in 0..(ansr.rows[y].width - 1) :
              (y # y0 \/ x # x0) => CellAt(ansr', y, x) = CellAt(ansr, y, x)

\* the parser has consumed ESC [ and nothing since
NoParameterBytes ==
    /\ ansr.state = "CSI"
    /\ ev.c = LBRACKET
    /\ ansr.n_params = 0
    /\ ansr.accumulator = 0

\* this step consumed byte c as the final byte of a CSI sequence without
\* parameter bytes, and no assert failed
BareFinal(c) ==
    /\ ByteStep
    /\ NoParameterBytes
    /\ ev'.c = c
    /\ pc' = "write"

----------------------------------------------------------------------------
(* C1 *)

\* C1: whenever a character is written at (R, C) with R at or beyond the
\* allocated height or C at or beyond row R's allocated width, after the write
\* the allocated height is at least R+1, row R's allocated width is at least
\* C+1, the stored cell lies inside the allocated storage, and every
\* previously written cell keeps its character code and Display State.
C1_WriteGrowsStorage ==
    [][ (WriteStep /\ BeyondCapacity) =>
            /\ ULess(WriteRow, ansr'.allocated_height)
            /\ RowExists(ansr', WriteRow)
            /\ ULess(WriteCol, ansr'.rows[WriteRow].allocated_width)
            /\ InStorage(ansr', WriteRow, WriteCol)
            /\ CellAt(ansr', WriteRow, WriteCol) =
                  [code |-> ev'.c, disp_state |-> ansr.disp_state]
            /\ CellsKept(WriteRow, WriteCol) ]_vars

\* the case of C1: a write beyond the allocated capacity has been executed
C1_Witness ==
    /\ ev.op = "byte"
    /\ ansr.state = "INPUT"
    /\ IsStored(ev.c)
    /\ ev.rc = 0
    /\ pc \in {"segv", "corrupt"}

----------------------------------------------------------------------------
(* C2 *)

\* C2: in every reachable state the grid's logical height is at most its
\* allocated height, and every existing Row's logical width is at most its
\* allocated width.
C2_LogicalWithinAllocated ==
    /\ ~ULess(ansr.allocated_height, ansr.height)
    /\ \A y \in DOMAIN ansr.rows : ansr.rows[y].width <= ansr.rows[y].allocated_width

----------------------------------------------------------------------------
(* C3 *)

\* C3: ESC [ H with no parameter bytes sets the cursor to row 0, column 0, and
\* ESC [ G with no parameter bytes sets the cursor column to 0 and leaves the
\* row unchanged.
C3_BareHomeAndColumn ==
    [][ /\ BareFinal(CUP) => (ansr'.cursor_y = 0 /\ ansr'.cursor_x = 0)
        /\ BareFinal(CHA) => (ansr'.cursor_x = 0 /\ ansr'.cursor_y = ansr.cursor_y) ]_vars

----------------------------------------------------------------------------
(* C4 *)

\* the cells of the grid are exactly the N bytes fed, the i-th byte at row
\* i div W, column i mod W, with the Display State current at its write
PrintedRowMajor ==
    LET N == Len(input)
        W == ansr.conf.screen_width
    IN  /\ DOMAIN ansr.rows = {i \div W : i \in 0..(N - 1)}
        /\ \A y \in DOMAIN ansr.rows :
              ansr.rows[y].width = Cardinality({i \in 0..(N - 1) : i \div W = y})
        /\ \A i \in 0..(N - 1) :
              /\ InStorage(ansr, i \div W, i % W)
              /\ CellAt(ansr, i \div W, i % W) =
                    [code |-> input[i + 1], disp_state |-> ansr.disp_state]

\* C4 (as claimed): after N printable bytes on a new renderer of screen width
\* W > 0 the cursor row is N div W and the cursor column N mod W, for every
\* N >= 0, and exactly N cells are written in row-major order.
C4_CursorAfterPrintable ==
    LET N == Len(input)
        W == ansr.conf.screen_width
    IN  /\ ansr.cursor_y = N \div W
        /\ ansr.cursor_x = N % W
        /\ PrintedRowMajor

\* C4 (amended): after N printable bytes on a new renderer of screen width
\* W > 0, no allocation failing, exactly N cells are written in row-major
\* order, and the cursor is at (N div W, N mod W) when N is 0 or no multiple
\* of W, and at (N div W - 1, W) when N is a positive multiple of W: the wrap
\* is done when the next character is written.
C4_CursorAfterPrintableDeferredWrap ==
    LET N == Len(input)
        W == ansr.conf.screen_width
        full == N > 0 /\ N % W = 0
    IN  /\ ansr.cursor_y = IF full THEN N \div W - 1 ELSE N \div W
        /\ ansr.cursor_x = IF full THEN W ELSE N % W
        /\ PrintedRowMajor

\* the case of C4: printable bytes filled rows exactly, more than once
C4_Witness ==
    /\ ansr.conf.screen_width = 2
    /\ Len(input) = 4
    /\ ansr.cursor_y = 1
    /\ ansr.cursor_x = 2
    /\ pc = "idle"

----------------------------------------------------------------------------
(* C5 *)

\* the grid: cell contents, logical height, row widths
Grid(a) == [height |-> a.height, rows |-> a.rows]

\* C5: when a CSI parameter whose accumulated value exceeds 255 is finalized
\* by ';' or by a final byte, the feed call reports failure with the overflow
\* error, and the grid is left as it was.
C5_OverflowReported ==
    [][ (ByteStep /\ ev'.rc = -EOVERFLOW) =>
            /\ pc' = "idle"
            /\ ret' = -EOVERFLOW
            /\ Grid(ansr') = Grid(ansr) ]_vars

\* the case of C5: a parameter above 255 has been finalized
C5_Witness == ev.op = "byte" /\ ev.rc = -EOVERFLOW /\ ev.c \in {SEMICOLON, SGR}

----------------------------------------------------------------------------
(* C6 *)

\* C6: when a realloc fails while the row array, a Row or the parameter list
\* is grown, the feed call in progress stops and returns a negative
\* out-of-memory code; no call in which a growth step failed returns success.
C6_OutOfMemoryReported ==
    [][ /\ (ByteStep /\ ev'.rc = -ENOMEM) => (pc' = "idle" /\ ret' = -ENOMEM)
        /\ (ev'.op = "return" /\ enomem') => ret' < 0 ]_vars

\* the case of C6: a growth step failed in a call that has returned
C6_Witness == ev.op = "return" /\ enomem

----------------------------------------------------------------------------
(* C7 *)

\* C7: in the CSI state every final byte in 0x40..0x7E processed without an
\* abort appends the pending accumulator to the parameter list and leaves the
\* parser in the INPUT state.
C7_FinalByteEndsSequence ==
    [][ ( /\ ByteStep
          /\ ansr.state = "CSI"
          /\ ev'.c \in FinalBytes \cup PrivateFinalBytes
          /\ pc' = "write" ) =>
            /\ ansr'.params = Append(ansr.params, ansr.accumulator)
            /\ ansr'.state = "INPUT" ]_vars

\* the case of C7: a final byte was processed in the CSI state without an abort
C7_Witness ==
    /\ ev.op = "byte"
    /\ ev.c \in FinalBytes \cup PrivateFinalBytes
    /\ ansr.n_params > 0
    /\ pc = "write"

----------------------------------------------------------------------------
(* C8 *)

\* C8: with no parameter bytes, ESC [ A moves the cursor up by exactly one row
\* (staying at row 0), ESC [ B increases the row by exactly 1 and ESC [ C
\* increases the column by exactly 1.
C8_BareCursorMoves ==
    [][ /\ BareFinal(CUU) =>
              ansr'.cursor_y = IF ansr.cursor_y = 0 THEN 0 ELSE ToUnsigned(ansr.cursor_y - 1)
        /\ BareFinal(CUD) => ansr'.cursor_y = ToUnsigned(ansr.cursor_y + 1)
        /\ BareFinal(CUF) => ansr'.cursor_x = ToUnsigned(ansr.cursor_x + 1) ]_vars

----------------------------------------------------------------------------
(* C9 *)

\* C9: feeding an input in two calls, split at any point, leaves the renderer
\* in exactly the state feeding it in one call does (parser state,
\* accumulator, parameter list, cursor, Display State, grid), when the input
\* is processed without an abort.
C9_SplitFeedEquivalent == pc = "done" => ansr = twin

\* the case of C9: an input split in the middle of a numeric parameter of an
\* escape sequence has been fed both ways
C9_Witness ==
    /\ pc = "done"
    /\ input = <<ESC, LBRACKET, 49, 49>>
    /\ fed = 3
    /\ ansr.state = "CSI"
    /\ ansr.accumulator = 11

----------------------------------------------------------------------------
(* C10 *)

\* C10: once byte 0x1A is consumed in the INPUT state the parser is in the
\* EOF state, and from then on no byte fed changes the parser state, the grid,
\* the cursor or the Display State, and every feed call reports success.
C10_EndOfStreamIsFinal ==
    [][ /\ (ByteStep /\ ansr.state = "INPUT" /\ ev'.c = SUB) => ansr'.state = "EOF"
        /\ ansr.state = "EOF" =>
              /\ ansr'.state = "EOF"
              /\ Grid(ansr') = Grid(ansr)
              /\ ansr'.cursor_x = ansr.cursor_x
              /\ ansr'.cursor_y = ansr.cursor_y
              /\ ansr'.disp_state = ansr.disp_state
              /\ pc' \in {"idle", "write"}
              /\ (ev'.op = "return" => ret' = 0) ]_vars

\* the case of C10: after the EOF marker a later call was fed bytes and returned
C10_Witness ==
    /\ ansr.state = "EOF"
    /\ ev.op = "return"
    /\ ev.c = ESC
    /\ ret = 0
    /\ ansr.height > 0

----------------------------------------------------------------------------
(* Vocabulary of the claims about one CSI sequence (SpecSeq) *)

RECURSIVE SplitFields(_, _)
\* the fields of parameter bytes separated by ';', cur being the field in progress
SplitFields(bytes, cur) ==
    IF bytes = << >> THEN <<cur>>
    ELSE IF Head(bytes) = SEMICOLON THEN <<cur>> \o SplitFields(Tail(bytes), << >>)
    ELSE SplitFields(Tail(bytes), Append(cur, Head(bytes)))

\* the parameter fields and the final byte of the sequence fed
SeqFields == SplitFields(SubSeq(input, 3, Len(input) - 1), << >>)
SeqFinal == input[Len(input)]

RECURSIVE Significant(_)
\* a digit string without its leading zeros
Significant(d) == IF d # << >> /\ Head(d) = 48 THEN Significant(Tail(d)) ELSE d

RECURSIVE DecimalValue(_)
\* the number a short digit string denotes
DecimalValue(d) ==
    IF d = << >> THEN 0 ELSE DecimalValue(SubSeq(d, 1, Len(d) - 1)) * 10 + (d[Len(d)] - 48)

\* the number the digit string denotes exceeds 255
Exceeds255(d) == Len(Significant(d)) > 3 \/ DecimalValue(Significant(d)) > 255

\* the field is an explicitly given number in lo..255
Given(d, lo) == d # << >> /\ ~Exceeds255(d) /\ DecimalValue(Significant(d)) >= lo

\* the number of field i
FieldValue(i) == DecimalValue(Significant(SeqFields[i]))

\* this step consumed the final byte of the sequence, and no assert failed
FinalStep ==
    /\ ByteStep
    /\ fed' = Len(input)
    /\ pc' = "write"

\* the final byte of the sequence has been consumed, and no assert failed
SeqDone ==
    /\ ev.op = "byte"
    /\ fed = Len(input)
    /\ pc = "write"

----------------------------------------------------------------------------
(* C11 *)

\* C11: for every pair of parameters r and c in 1..255, ESC [ r ; c H sets the
\* cursor to row r-1, column c-1, whatever the cursor position was before.
C11_CursorPosition ==
    [][ ( /\ FinalStep
          /\ SeqFinal = CUP
          /\ Len(SeqFields) = 2
          /\ Given(SeqFields[1], 1)
          /\ Given(SeqFields[2], 1) ) =>
            /\ ansr'.cursor_y = FieldValue(1) - 1
            /\ ansr'.cursor_x = FieldValue(2) - 1 ]_vars

\* the case of C11: ESC [ 128 ; 255 H has been processed with the cursor away
\* from the origin
C11_Witness ==
    /\ SeqDone
    /\ input = Csi(<<Decimal(128), Decimal(255)>>, CUP)
    /\ twin.cursor_y = 254
    /\ twin.cursor_x = 9

----------------------------------------------------------------------------
(* C12 *)

\* the baseline Display State of the claims: what an SGR reset produces
Baseline == [fg |-> ANSR_COLOR_WHITE, bg |-> ANSR_COLOR_BLACK, attrs |-> {}]

\* cell (y, x) of an existing row has never been stored to: it lies at or
\* beyond the logical width, or below it with code 0 (no byte fed is NUL)
NeverWritten(y, x) == x >= ansr.rows[y].width \/ CellAt(ansr, y, x).code = 0

\* C12: every allocated cell that has never been explicitly written holds
\* character code 0 and the baseline Display State, the value an SGR reset
\* produces (foreground white, background black, all attributes cleared).
C12_UnwrittenCellsBaseline ==
    \A y \in DOMAIN ansr.rows :
        \A x \in 0..(ansr.rows[y].allocated_width - 1) :
            NeverWritten(y, x) => CellAt(ansr, y, x) = [code |-> 0, disp_state |-> Baseline]

\* the case of C12: a row has been allocated and holds cells never written
C12_Witness ==
    /\ pc = "write"
    /\ \E y \in DOMAIN ansr.rows : ansr.rows[y].width < ansr.rows[y].allocated_width

----------------------------------------------------------------------------
(* C13 *)

\* C13: after ansr_free of a renderer that has processed any input, every
\* block the renderer acquired (the row array, each Row's cell storage, the
\* parameter list and the renderer itself) has been released; ansr_free of a
\* null instance does nothing.
C13_FreeReleasesAll ==
    [][ (pc # "freed" /\ pc' = "freed") =>
            /\ heap' = {}
            /\ pc = "null" => heap' = heap ]_vars

\* the case of C13: a renderer that has stored characters has been freed
C13_Witness ==
    /\ pc = "freed"
    /\ ansr.height > 0
    /\ DOMAIN ansr.rows # {}

----------------------------------------------------------------------------
(* C14 *)

\* this step stored a character in the grid: _ansr_add_char ran to its end
StoreStep == WriteStep /\ pc' = "write"

----------------------------------------------------------------------------
(* C15 *)

\* C15: from any prior Display State, ESC [ m and ESC [ 0 m produce the
\* identical resulting Display State, the baseline: foreground white,
\* background black, every attribute cleared.
C15_EmptyAndZeroSgrReset ==
    [][ (FinalStep /\ input \in {Csi(<< >>, SGR), Csi(<<Decimal(0)>>, SGR)}) =>
            ansr'.disp_state = Baseline ]_vars

\* the case of C15: ESC [ m has been processed from a Display State with
\* attributes set and other colors
C15_Witness ==
    /\ SeqDone
    /\ input = <<ESC, LBRACKET, SGR>>
    /\ twin.disp_state.attrs # {}
    /\ twin.disp_state.fg # ANSR_COLOR_WHITE
    /\ twin.disp_state.bg # ANSR_COLOR_BLACK
    /\ ansr.disp_state = Baseline

----------------------------------------------------------------------------
(* C16 *)

\* C16: in the INPUT state with the cursor at (row, C), C > 0, feeding CR then
\* LF leaves the cursor at (row+1, 0), as CR and LF applied one after the
\* other do (CR: column 0, same row; LF: next row, same column), and changes
\* neither the grid nor the parser state.
C16_CrThenLf ==
    [][ /\ (ByteStep /\ ansr.state = "INPUT" /\ ev'.c = CR) =>
              /\ ansr'.cursor_x = 0
              /\ ansr'.cursor_y = ansr.cursor_y
              /\ Grid(ansr') = Grid(ansr)
              /\ ansr'.state = "INPUT"
        /\ (ByteStep /\ ansr.state = "INPUT" /\ ev.c = CR /\ ev'.c = LF) =>
              /\ ansr'.cursor_x = 0
              /\ ansr'.cursor_y = ToUnsigned(ansr.cursor_y + 1)
              /\ Grid(ansr') = Grid(ansr)
              /\ ansr'.state = "INPUT" ]_vars

\* the case of C16: with the cursor at column 2 of row 0, CR and LF have been fed
C16_Witness ==
    /\ ev.op = "byte"
    /\ ev.c = LF
    /\ fed = 2
    /\ twin.cursor_x = 2
    /\ twin.cursor_y = 0
    /\ ansr.cursor_x = 0
    /\ ansr.cursor_y = 1
    /\ Grid(ansr) = Grid(twin)
    /\ ansr.state = "INPUT"

----------------------------------------------------------------------------
(* C17 *)

\* this step consumed the byte that finalizes the first parameter field: the
\* ';' or the final byte after its digits
FinalizesFirstField ==
    /\ ByteStep
    /\ ansr.state = "CSI"
    /\ fed = 2 + Len(SeqFields[1])

\* C17: for every digit string fed as a CSI parameter whose decimal value
\* exceeds 255, however many digits it has (values at or above 2^32 included),
\* finalizing the parameter is detected as an overflow error, and no such
\* value is appended to the parameter list.
C17_OverflowDetected ==
    [][ (FinalizesFirstField /\ Exceeds255(SeqFields[1])) =>
            /\ ev'.rc = -EOVERFLOW
            /\ ansr'.params = ansr.params ]_vars

\* the case of C17: the parameter 4294967296 has been finalized
C17_Witness ==
    /\ ev.op = "byte"
    /\ SeqFields[1] = DigitBytes(<<4, 2, 9, 4, 9, 6, 7, 2, 9, 6>>)
    /\ fed = 3 + Len(SeqFields[1])

----------------------------------------------------------------------------
(* C18 *)

\* C18: for every explicitly given parameter n in 0..255 (128..255 included),
\* ESC [ n A sets the row to row - min(row, n), ESC [ n B increases the row by
\* exactly n and ESC [ n C increases the column by exactly n.
C18_ExplicitCursorMoves ==
    [][ (FinalStep /\ Len(SeqFields) = 1 /\ Given(SeqFields[1], 0)) =>
            /\ SeqFinal = CUU =>
                  ansr'.cursor_y = ToUnsigned(ansr.cursor_y - UMin(ansr.cursor_y, FieldValue(1)))
            /\ SeqFinal = CUD => ansr'.cursor_y = ToUnsigned(ansr.cursor_y + FieldValue(1))
            /\ SeqFinal = CUF => ansr'.cursor_x = ToUnsigned(ansr.cursor_x + FieldValue(1)) ]_vars

\* the case of C18: ESC [ 200 A has been processed with the cursor at row 254
C18_Witness ==
    /\ SeqDone
    /\ input = Csi(<<Decimal(200)>>, CUU)
    /\ twin.cursor_y = 254

----------------------------------------------------------------------------
(* C19 *)

\* the implemented SGR codes, as the claim lists them
Implemented ==
    (0..9) \cup (21..29) \cup (30..37) \cup (40..47) \cup (50..55) \cup (60..65) \cup (73..75)

\* the per-code table of the specification: the attributes a code sets
FirstNine ==
    <<"bold", "faint", "italic", "underline", "slow_blink", "rapid_blink", "invert",
      "conceal", "strikeout">>
IdeogramGroup ==
    <<"ideogram_underline", "ideogram_double_underline", "ideogram_overline",
      "ideogram_double_overline", "ideogram_stress">>
TableSets(p) ==
    CASE p \in 1..9 -> {FirstNine[p]}
      [] p = 21 -> {"double_underline"}
      [] p = 51 -> {"framed"}
      [] p = 52 -> {"encircled"}
      [] p = 53 -> {"overlined"}
      [] p \in 60..64 -> {IdeogramGroup[p - 59]}
      [] p = 73 -> {"superscript"}
      [] p = 74 -> {"subscript"}
      [] OTHER -> {}

\* the per-code table of the specification: the attributes a code clears
TableClears(p) ==
    CASE p = 22 -> {"bold"}
      [] p = 23 -> {"italic"}
      [] p = 24 -> {"underline", "double_underline"}
      [] p = 25 -> {"slow_blink", "rapid_blink"}
      [] p \in {26, 50} -> {"proportional"}
      [] p = 27 -> {"invert"}
      [] p = 28 -> {"conceal"}
      [] p = 29 -> {"strikeout"}
      [] p = 54 -> {"framed", "encircled"}
      [] p = 55 -> {"overlined"}
      [] p = 65 -> {IdeogramGroup[i] : i \in 1..5}
      [] p = 75 -> {"superscript", "subscript"}
      [] OTHER -> {}

\* the Display State after code p: 0 resets; 30-37 change the foreground only,
\* 40-47 the background only, every other code attributes only
Table(d, p) ==
    IF p = 0 THEN Baseline
    ELSE [fg |-> IF p \in 30..37 THEN p - 30 ELSE d.fg,
          bg |-> IF p \in 40..47 THEN p - 40 ELSE d.bg,
          attrs |-> (d.attrs \cup TableSets(p)) \ TableClears(p)]

RECURSIVE Fold(_, _)
\* the table applied to d for each field of the sequence from field i on
Fold(d, i) == IF i > Len(SeqFields) THEN d ELSE Fold(Table(d, FieldValue(i)), i + 1)

----------------------------------------------------------------------------
(* C20 *)

\* the rows this step may bring into existence: the row a character is written at
WrittenRows == IF WriteStep THEN {WriteRow} ELSE {}

----------------------------------------------------------------------------
(* C21 *)

\* C21: a newly created Renderer's live Display State equals the baseline
\* (foreground white, background black, no attributes), so every character
\* written before the first SGR sequence is stored with the Display State a
\* character written immediately after ESC [ 0 m is stored with.
C21_NewRendererBaseline ==
    [][ /\ ev.op = "new" => ansr.disp_state = Baseline
        /\ StoreStep => CellAt(ansr', WriteRow, WriteCol).disp_state = Baseline ]_vars

\* the case of C21: a new renderer has stored a character, no sequence having
\* been fed to it
C21_Witness ==
    /\ pc = "write"
    /\ ev.op = "byte"
    /\ input = <<SP>>
    /\ RowExists(ansr, 0)
    /\ ansr.rows[0].width = 1

====
